---- MODULE Spec2Model ----
(***************************************************************************)
(* Model of flake8_pep515: the literal classifier _LITERAL_TYPE.of, the    *)
(* character-walk separator validator _find_invalid_sep, and the rule      *)
(* driver Checker.run with its per-family handlers.                        *)
(*                                                                         *)
(* A Python str is a sequence of one-character strings.                    *)
(***************************************************************************)
EXTENDS Integers, Sequences

VARIABLES
    text,         \* classifier: the literal text handed to _LITERAL_TYPE.of
    family,       \* classifier: the family returned, "unset" before the call
    body,         \* validator: the `string` argument of _find_invalid_sep
    width,        \* validator: the `len_` argument of _find_invalid_sep
    walk,         \* validator: the locals of _find_invalid_sep (see W0)
    file_tokens,  \* driver: Checker.file_tokens, the tokens in stream order
    oneShot,      \* driver: file_tokens is a one-shot iterator (TRUE) or a list (FALSE)
    it,           \* driver: how many tokens the iterator of the for loop has produced
    begin,        \* driver: value of `it` when the current run() started iterating
    nrun,         \* driver: how many times run() has been called
    pc,           \* driver: "ready" | "running" | "done" | "raised"
    exc,          \* driver: the exception that ended the run, None if none
    yielded,      \* driver: the diagnostics the current run has yielded, in order
    src,          \* history: src[j] is the index of the token that produced yielded[j]
    first         \* history: outcome of the first run, recorded when run() is called again

vars == <<text, family, body, width, walk, file_tokens, oneShot, it, begin,
          nrun, pc, exc, yielded, src, first>>

----------------------------------------------------------------------------
(* Bounds of the model *)

MaxText == 3

MaxWalk == 7

MaxBody == 3

MaxTokens == 2

----------------------------------------------------------------------------
(* Module constants *)

_SEPARATOR == "_"

None == "None"

_LITERAL_TYPE == {"DEC", "BIN", "OCT", "HEX", "POINTFLOAT", "EXPONENTFLOAT"}

dec_len == 3

bin_len == 4

oct_len == 4

hex_len == 4

point_len == 3

exponent_len == 3

----------------------------------------------------------------------------
(* Python str helpers *)

\* str.lower on the characters the model uses
lower(c) ==
    CASE c = "B" -> "b"
      [] c = "O" -> "o"
      [] c = "X" -> "x"
      [] c = "E" -> "e"
      [] OTHER -> c

\* string[:n]
SliceTo(string, n) == SubSeq(string, 1, IF Len(string) < n THEN Len(string) ELSE n)

\* string[n:]
SliceFrom(string, n) == SubSeq(string, n + 1, Len(string))

\* c in string
Contains(string, c) == \E k \in 1..Len(string) : string[k] = c

LowerStr(string) == [k \in 1..Len(string) |-> lower(string[k])]

----------------------------------------------------------------------------
(* _LITERAL_TYPE.of *)

ofContentFirst(string) ==
    LET prefix == LowerStr(SliceTo(string, 2))
    IN  IF Contains(LowerStr(string), "e") THEN "EXPONENTFLOAT"
        ELSE IF Contains(string, ".") THEN "POINTFLOAT"
        ELSE IF prefix = <<"0", "b">> THEN "BIN"
        ELSE IF prefix = <<"0", "o">> THEN "OCT"
        ELSE IF prefix = <<"0", "x">> THEN "HEX"
        ELSE "DEC"

of(string) ==
    LET prefix == LowerStr(SliceTo(string, 2))
    IN  IF prefix = <<"0", "b">> THEN "BIN"
        ELSE IF prefix = <<"0", "o">> THEN "OCT"
        ELSE IF prefix = <<"0", "x">> THEN "HEX"
        ELSE IF Contains(LowerStr(string), "e") THEN "EXPONENTFLOAT"
        ELSE IF Contains(string, ".") THEN "POINTFLOAT"
        ELSE "DEC"

----------------------------------------------------------------------------
(* _find_invalid_sep *)

\* The locals on entry: toplevel = True, current_len = 0, the loop index at
\* the first character; nothing returned yet.
W0 == [i |-> 0, current_len |-> 0, toplevel |-> TRUE, returned |-> FALSE, ret |-> 0]

Return(w, value) == [w EXCEPT !.returned = TRUE, !.ret = value]

\* One iteration of the for loop (w.i is the 0-based index of the character
\* looked at), or, once the loop is exhausted, the code after it.
WalkStep(w, string, len_) ==
    IF w.i < Len(string)
    THEN LET s == string[w.i + 1]
         IN  IF s = _SEPARATOR
             THEN IF w.current_len = len_
                  THEN [w EXCEPT !.current_len = 0, !.i = w.i + 1]
                  ELSE IF w.current_len < len_ /\ w.toplevel
                  THEN [w EXCEPT !.toplevel = FALSE, !.current_len = 0, !.i = w.i + 1]
                  ELSE Return(w, w.i)
             ELSE IF w.current_len > len_
                  THEN Return(w, w.i)
                  ELSE [w EXCEPT !.current_len = w.current_len + 1, !.i = w.i + 1]
    ELSE IF w.current_len # len_
         THEN Return(w, Len(string))
         ELSE Return(w, -1)

RECURSIVE WalkFrom(_, _, _)
WalkFrom(w, string, len_) ==
    IF w.returned THEN w.ret ELSE WalkFrom(WalkStep(w, string, len_), string, len_)

_find_invalid_sep(string, len_) == WalkFrom(W0, string, len_)

----------------------------------------------------------------------------
(* Checker: the per-family handlers.  A handler's outcome is the sequence  *)
(* of diagnostics its generator yields and the exception the call raises   *)
(* (None if none).                                                         *)

Outcome(e, diagnostics) == [exc |-> e, yielded |-> diagnostics]

Diagnostic(token, invalid, message) ==
    <<token.start[1], token.start[2] + invalid, message, None>>

_check_DEC_always(token) ==
    LET invalid == _find_invalid_sep(token.string, dec_len)
    IN  IF invalid >= -1
        THEN Outcome(None, <<Diagnostic(token, invalid, "NSP001 DEC Invalid")>>)
        ELSE Outcome(None, <<>>)

_check_DEC(token) ==
    LET invalid == _find_invalid_sep(token.string, dec_len)
    IN  IF invalid >= 0
        THEN Outcome(None, <<Diagnostic(token, invalid, "NSP001 DEC Invalid")>>)
        ELSE Outcome(None, <<>>)

_check_BIN(token) ==
    LET body_ == SliceFrom(token.string, 2)
        invalid == _find_invalid_sep(body_, bin_len)
    IN  IF invalid >= 0
        THEN Outcome(None, <<Diagnostic(token, invalid, "NSP011 BIN Invalid")>>)
        ELSE Outcome(None, <<>>)

_check_OCT(token) ==
    LET body_ == SliceFrom(token.string, 2)
        invalid == _find_invalid_sep(body_, oct_len)
    IN  IF invalid >= 0
        THEN Outcome(None, <<Diagnostic(token, invalid, "NSP021 OCT Invalid")>>)
        ELSE Outcome(None, <<>>)

_check_HEX(token) ==
    LET body_ == SliceFrom(token.string, 2)
        invalid == _find_invalid_sep(body_, hex_len)
    IN  IF invalid >= 0
        THEN Outcome(None, <<Diagnostic(token, invalid, "NSP031 HEX Invalid")>>)
        ELSE Outcome(None, <<>>)

_check_POINTFLOAT_silent(token) == Outcome(None, <<>>)

\* `raise NotImplemented`: NotImplemented is not an exception, so the raise
\* statement itself fails with TypeError; the method is no generator, so
\* this happens at the call.
_check_POINTFLOAT(token) == Outcome("TypeError", <<>>)

_check_EXPONENTFLOAT(token) == Outcome("TypeError", <<>>)

\* self._check_for[literal_type](token)
_check_for(type_, token) ==
    CASE type_ = "DEC" -> _check_DEC(token)
      [] type_ = "BIN" -> _check_BIN(token)
      [] type_ = "OCT" -> _check_OCT(token)
      [] type_ = "HEX" -> _check_HEX(token)
      [] type_ = "POINTFLOAT" -> _check_POINTFLOAT(token)
      [] type_ = "EXPONENTFLOAT" -> _check_EXPONENTFLOAT(token)

----------------------------------------------------------------------------
(* Checker.run *)

\* `yield from`: the handler's diagnostics follow those already yielded
YieldFromFront(out, new) == new \o out

YieldFrom(out, new) == out \o new

\* iter(self.file_tokens) at the head of the for loop: a list starts over at
\* its first element, an iterator goes on from where it stands.
IterSamePlace(oneShot_, it_) == it_

Iter(oneShot_, it_) == IF oneShot_ THEN it_ ELSE 0

\* run() is called and its generator starts iterating.  A second call
\* happens after the first run has ended.
RunCall ==
    /\ \/ pc = "ready"
       \/ pc \in {"done", "raised"} /\ nrun = 1
    /\ nrun' = nrun + 1
    /\ first' = IF nrun = 1 THEN [pc |-> pc, exc |-> exc, yielded |-> yielded]
                ELSE first
    /\ it' = Iter(oneShot, it)
    /\ begin' = Iter(oneShot, it)
    /\ pc' = "running"
    /\ exc' = None
    /\ yielded' = <<>>
    /\ src' = <<>>
    /\ UNCHANGED <<text, family, body, width, walk, file_tokens, oneShot>>

\* One iteration of `for token in self.file_tokens`.
RunStep ==
    /\ pc = "running"
    /\ it < Len(file_tokens)
    /\ it' = it + 1
    /\ LET token == file_tokens[it + 1]
       IN  IF token.type # "NUMBER"
           THEN UNCHANGED <<pc, exc, yielded, src>>
           ELSE LET literal_type == of(token.string)
                    out == _check_for(literal_type, token)
                IN  IF out.exc # None
                    THEN /\ pc' = "raised"
                         /\ exc' = out.exc
                         /\ UNCHANGED <<yielded, src>>
                    ELSE /\ yielded' = YieldFrom(yielded, out.yielded)
                         /\ src' = YieldFrom(src, [j \in 1..Len(out.yielded) |-> it + 1])
                         /\ UNCHANGED <<pc, exc>>
    /\ UNCHANGED <<text, family, body, width, walk, file_tokens, oneShot, begin,
                   nrun, first>>

\* The token stream is exhausted: the loop ends and run() returns.
RunReturn ==
    /\ pc = "running"
    /\ it = Len(file_tokens)
    /\ pc' = "done"
    /\ UNCHANGED <<text, family, body, width, walk, file_tokens, oneShot, it,
                   begin, nrun, exc, yielded, src, first>>

----------------------------------------------------------------------------
(* Steps of the two pure functions *)

\* _LITERAL_TYPE.of(text)
Classify ==
    /\ family = "unset"
    /\ family' = of(text)
    /\ UNCHANGED <<text, body, width, walk, file_tokens, oneShot, it, begin,
                   nrun, pc, exc, yielded, src, first>>

\* _find_invalid_sep(body, width), one loop iteration at a time
WalkChar ==
    /\ ~walk.returned
    /\ walk.i < Len(body)
    /\ walk' = WalkStep(walk, body, width)
    /\ UNCHANGED <<text, family, body, width, file_tokens, oneShot, it, begin,
                   nrun, pc, exc, yielded, src, first>>

\* _find_invalid_sep(body, width), the code after the loop
WalkEnd ==
    /\ ~walk.returned
    /\ walk.i = Len(body)
    /\ walk' = WalkStep(walk, body, width)
    /\ UNCHANGED <<text, family, body, width, file_tokens, oneShot, it, begin,
                   nrun, pc, exc, yielded, src, first>>

----------------------------------------------------------------------------
(* Inputs *)

Strings(chars, n) == UNION {[1..k -> chars] : k \in 0..n}

NoAdjacentSeparators(string) ==
    \A k \in 1..(Len(string) - 1) :
        ~(string[k] = _SEPARATOR /\ string[k + 1] = _SEPARATOR)

ClassifierChars == {"0", "1", "b", "B", "o", "O", "x", "X", "e", "E", "."}

Texts == Strings(ClassifierChars, MaxText)

WalkBodies == Strings({"1", _SEPARATOR}, MaxWalk) \ {<<>>}

\* The digit part of a literal as the tokenizer lets it through: a separator
\* only between digits or right after a base prefix.
DigitParts ==
    {b \in Strings({"1", _SEPARATOR}, MaxBody) :
        /\ Len(b) >= 1
        /\ b[Len(b)] # _SEPARATOR
        /\ NoAdjacentSeparators(b)}

DecStrings == {b \in DigitParts : b[1] # _SEPARATOR}

PrefixedStrings ==
    {p \o b : p \in {<<"0", "b">>, <<"0", "o">>, <<"0", "x">>}, b \in DigitParts}

FloatStrings == {<<"1", ".", "1">>, <<"1", "e", "1">>}

NameStrings == {<<"_", "1">>, <<"e">>}

TokenPool ==
    {[type |-> "NUMBER", string |-> s] :
        s \in DecStrings \cup PrefixedStrings \cup FloatStrings}
    \cup {[type |-> "NAME", string |-> s] : s \in NameStrings}

\* The tokens stand on line 1, one blank apart.
RECURSIVE StartCol(_, _)
StartCol(stream, k) ==
    IF k = 1 THEN 0 ELSE StartCol(stream, k - 1) + Len(stream[k - 1].string) + 1

TokenInfos(stream) ==
    [k \in 1..Len(stream) |->
        [type |-> stream[k].type, string |-> stream[k].string,
         start |-> <<1, StartCol(stream, k)>>]]

TokenStreams == {TokenInfos(s) : s \in UNION {[1..n -> TokenPool] : n \in 0..MaxTokens}}

----------------------------------------------------------------------------
(* Specifications *)

ClassifierIdle == text = <<>> /\ family = "unset"

WalkIdle == body = <<>> /\ width = 0 /\ walk = W0

DriverIdle ==
    /\ file_tokens = <<>>
    /\ oneShot = FALSE
    /\ it = 0
    /\ begin = 0
    /\ nrun = 0
    /\ pc = "ready"
    /\ exc = None
    /\ yielded = <<>>
    /\ src = <<>>
    /\ first = [pc |-> "ready", exc |-> None, yielded |-> <<>>]

\* Checker(tree, file_tokens) has been constructed
Init ==
    /\ ClassifierIdle
    /\ WalkIdle
    /\ file_tokens \in TokenStreams
    /\ oneShot \in BOOLEAN
    /\ it = 0
    /\ begin = 0
    /\ nrun = 0
    /\ pc = "ready"
    /\ exc = None
    /\ yielded = <<>>
    /\ src = <<>>
    /\ first = [pc |-> "ready", exc |-> None, yielded |-> <<>>]

Next == RunCall \/ RunStep \/ RunReturn

Spec == Init /\ [][Next]_vars

InitOf == text \in Texts /\ family = "unset" /\ WalkIdle /\ DriverIdle

NextOf == Classify

SpecOf == InitOf /\ [][NextOf]_vars

InitWalk ==
    /\ ClassifierIdle
    /\ body \in WalkBodies
    /\ width \in {dec_len, bin_len, oct_len, hex_len}
    /\ walk = W0
    /\ DriverIdle

NextWalk == WalkChar \/ WalkEnd

SpecWalk == InitWalk /\ [][NextWalk]_vars

----------------------------------------------------------------------------
(* Vocabulary of the properties *)

Implemented == {"DEC", "BIN", "OCT", "HEX"}

Floats == {"POINTFLOAT", "EXPONENTFLOAT"}

GroupWidth(fam) ==
    CASE fam = "DEC" -> dec_len
      [] fam = "BIN" -> bin_len
      [] fam = "OCT" -> oct_len
      [] fam = "HEX" -> hex_len
      [] fam = "POINTFLOAT" -> point_len
      [] fam = "EXPONENTFLOAT" -> exponent_len

PrefixLength(fam) == IF fam \in {"BIN", "OCT", "HEX"} THEN 2 ELSE 0

\* the digit body of a literal: its text after the base prefix, if any
DigitBody(tok) == SliceFrom(tok.string, PrefixLength(of(tok.string)))

IsNumber(tok) == tok.type = "NUMBER"

IsImplementedNumber(tok) == IsNumber(tok) /\ of(tok.string) \in Implemented

IsFloatNumber(tok) == IsNumber(tok) /\ of(tok.string) \in Floats

\* what the validator returns for the token's body and its family's width
ValidatorResult(tok) == _find_invalid_sep(DigitBody(tok), GroupWidth(of(tok.string)))

FailsValidation(tok) == IsImplementedNumber(tok) /\ ValidatorResult(tok) >= 0

PassesValidation(tok) == IsImplementedNumber(tok) /\ ValidatorResult(tok) = -1

\* indices of the tokens the current run has taken from the stream
Consumed == (begin + 1)..it

\* v occurs exactly n times in seq, for n = 0 or n = 1
Never(seq, v) == \A j \in 1..Len(seq) : seq[j] # v

Once(seq, v) ==
    \E j \in 1..Len(seq) :
        seq[j] = v /\ \A h \in 1..Len(seq) : seq[h] = v => h = j

RunEnded == pc \in {"done", "raised"}

\* body.split("_")
RECURSIVE Split(_)
Split(string) ==
    IF ~Contains(string, _SEPARATOR)
    THEN <<string>>
    ELSE LET k == CHOOSE j \in 1..Len(string) :
                      /\ string[j] = _SEPARATOR
                      /\ \A h \in 1..(j - 1) : string[h] # _SEPARATOR
         IN  <<SubSeq(string, 1, k - 1)>> \o Split(SubSeq(string, k + 1, Len(string)))

\* the segment rule: first segment at most len_ long, every other exactly len_
SegmentsValid(string, len_) ==
    LET segs == Split(string)
    IN  /\ Len(segs[1]) <= len_
        /\ \A j \in 2..Len(segs) : Len(segs[j]) = len_

\* number of characters between position k (1-based) and the separator
\* before it, or the start of the string
RunBefore(string, k) ==
    LET seps == {j \in 1..(k - 1) : string[j] = _SEPARATOR}
        last == IF seps = {} THEN 0 ELSE CHOOSE j \in seps : \A h \in seps : h <= j
    IN  k - 1 - last

\* the family the classification rule assigns, read off the characters
RuleFamily(t) ==
    LET second(cs) == Len(t) >= 2 /\ t[1] = "0" /\ t[2] \in cs
    IN  IF second({"b", "B"}) THEN "BIN"
        ELSE IF second({"o", "O"}) THEN "OCT"
        ELSE IF second({"x", "X"}) THEN "HEX"
        ELSE IF Contains(t, "e") \/ Contains(t, "E") THEN "EXPONENTFLOAT"
        ELSE IF Contains(t, ".") THEN "POINTFLOAT"
        ELSE "DEC"

----------------------------------------------------------------------------
(* Properties of _find_invalid_sep (under SpecWalk) *)

\* C1: the validator accepts a body (returns -1) if and only if, split on
\* '_', its first segment is at most width long and every later segment is
\* exactly width long.
C1_AcceptsIffSegmentRule ==
    walk.returned => ((walk.ret = -1) <=> SegmentsValid(body, width))

\* C3: a body whose first or last character is the separator is rejected:
\* the validator returns a non-negative position.
C3_EdgeSeparatorRejected ==
    (walk.returned /\ (body[1] = _SEPARATOR \/ body[Len(body)] = _SEPARATOR))
        => walk.ret >= 0

\* C9: every separator the walk has gone past (accepted) follows a run of
\* exactly width characters, unless it is the first separator of the body,
\* which may follow a shorter run.
C9_OnlyFirstSeparatorEarly ==
    \A k \in 1..walk.i :
        body[k] = _SEPARATOR =>
            \/ RunBefore(body, k) = width
            \/ /\ RunBefore(body, k) < width
               /\ \A j \in 1..(k - 1) : body[j] # _SEPARATOR

----------------------------------------------------------------------------
(* Properties of _LITERAL_TYPE.of (under SpecOf) *)

\* C4: of returns exactly one of the six families, the prefixes 0b/0o/0x
\* (either case) win over the content checks, then 'e'/'E' gives
\* ExponentFloat, then '.' gives PointFloat, and Decimal is the rest.
C4_ClassifierRule ==
    family # "unset" => (family \in _LITERAL_TYPE /\ family = RuleFamily(text))

\* a prefixed literal that also contains an exponent letter or a point
C4_Witness ==
    /\ family \in {"BIN", "OCT", "HEX"}
    /\ Contains(text, "e") \/ Contains(text, "E") \/ Contains(text, ".")

----------------------------------------------------------------------------
(* Properties of Checker.run (under Spec) *)

\* C2: a literal of an implemented family whose body has no separator and
\* is 1..width characters long gets no diagnostic.
C2_ShortUnseparatedPasses ==
    \A k \in Consumed :
        LET tok == file_tokens[k]
        IN  ( /\ IsImplementedNumber(tok)
              /\ ~Contains(DigitBody(tok), _SEPARATOR)
              /\ Len(DigitBody(tok)) >= 1
              /\ Len(DigitBody(tok)) <= GroupWidth(of(tok.string)) )
            => Never(src, k)

\* C5: a numeric token classified PointFloat or ExponentFloat ends the run
\* with an exception at that token; the run never goes past it.
C5_FloatRaises ==
    \A k \in Consumed :
        IsFloatNumber(file_tokens[k]) => (pc = "raised" /\ exc # None /\ k = it)

\* a run that yielded a diagnostic and then hit a float literal
C5_Witness ==
    /\ pc = "raised"
    /\ Len(yielded) >= 1
    /\ IsFloatNumber(file_tokens[it])

\* C6: each consumed token of an implemented family that fails validation
\* has exactly one diagnostic, every other consumed token has none, every
\* diagnostic belongs to a consumed token, and a failed token does not end
\* the run.
C6_OneDiagnosticPerFailure ==
    /\ \A k \in Consumed :
           LET fails == FailsValidation(file_tokens[k])
           IN  /\ IF fails THEN Once(src, k) ELSE Never(src, k)
               /\ fails => \/ pc = "running"
                           \/ pc = "done" /\ it = Len(file_tokens)
                           \/ pc = "raised" /\ k < it
    /\ \A j \in 1..Len(src) : src[j] \in Consumed
    /\ Len(src) = Len(yielded)

\* a finished run over a failing literal, a passing literal and a
\* non-numeric token or second numeric token
C6_Witness ==
    /\ pc = "done"
    /\ Len(yielded) = 1
    /\ \E k \in Consumed : FailsValidation(file_tokens[k]) /\ k < it
    /\ \E k \in Consumed : PassesValidation(file_tokens[k])

\* C7: diagnostics are yielded in token order: their tokens' indices
\* strictly increase, so do their positions, and none belongs to a token
\* the run has not consumed yet.
C7_StreamOrder ==
    /\ \A i \in 1..Len(src) : \A j \in 1..Len(src) : i < j => src[i] < src[j]
    /\ \A i \in 1..Len(yielded) : \A j \in 1..Len(yielded) :
           i < j => ( /\ yielded[i][1] <= yielded[j][1]
                      /\ yielded[i][1] = yielded[j][1] => yielded[i][2] < yielded[j][2] )
    /\ \A j \in 1..Len(src) : src[j] <= it

\* two diagnostics have been yielded
C7_Witness == Len(yielded) >= 2 /\ pc = "running"

\* C8 as stated: a second run over the same file_tokens yields the same
\* diagnostic sequence as the first.
C8_SecondRunIdentical ==
    (nrun = 2 /\ RunEnded) => yielded = first.yielded

\* C8 amended: a second run over the same file_tokens yields the same
\* diagnostic sequence as the first when file_tokens is a list (an iterable
\* that starts over each time it is iterated).
C8_SecondRunIdenticalOverList ==
    (nrun = 2 /\ RunEnded /\ ~oneShot) => yielded = first.yielded

\* a second run over a list has ended and has yielded a diagnostic
C8_Witness == nrun = 2 /\ RunEnded /\ ~oneShot /\ Len(yielded) >= 1

\* C10: each diagnostic stands on its token's start line, at the start
\* column plus the offset of the offending character counted from the first
\* character of the raw text, prefix included.
C10_ColumnFromRawText ==
    \A j \in 1..Len(yielded) :
        LET tok == file_tokens[src[j]]
            offset == PrefixLength(of(tok.string)) + ValidatorResult(tok)
        IN  /\ yielded[j][1] = tok.start[1]
            /\ yielded[j][2] = tok.start[2] + offset

====
